---- MODULE Spec2Model ----
(***************************************************************************)
(* Model of the PayPal transaction dashboard (Dashboard component with its *)
(* MultiSelect merchant filter).                                           *)
(*                                                                         *)
(* Strings are strings; where the code looks inside one (dates, amounts,   *)
(* transaction types, date inputs) Chars gives its characters, and split,  *)
(* parseInt, parseFloat and includes work on those.                        *)
(* Numbers are records [nan, v]: v is the value, nan marks JavaScript NaN. *)
(* Amounts are counted in hundredths, time values in seconds.              *)
(***************************************************************************)
EXTENDS Integers, Sequences, FiniteSets, TLC

VARIABLES
    rawTransactions,    \* useState<RawTransaction[]>
    selectedMerchants,  \* useState<string[]>, initially ['all']
    uploadedFiles,      \* useState<string[]>
    startDate,          \* useState<string>, value of the start date input
    endDate,            \* useState<string>, value of the end date input
    isLoading,          \* useState(false)
    merchants,          \* useMemo over rawTransactions
    uploads,            \* the handleFileUpload calls with a parse still to finish
    started,            \* how many handleFileUpload calls have started parsing
    tz,                 \* minutes the local zone is ahead of UTC
    lastOp              \* the handler that ran last

vars == <<rawTransactions, selectedMerchants, uploadedFiles, startDate, endDate,
          isLoading, merchants, uploads, started, tz, lastOp>>

-----------------------------------------------------------------------------
(* Bounds *)

\* uploads started in one behaviour
MaxUploads == 2

\* files selected in one upload
MaxFiles == 2

-----------------------------------------------------------------------------
(* Numbers and text *)

Num(n) == [nan |-> FALSE, v |-> n]

NaN == [nan |-> TRUE, v |-> 0]

\* a + b of JavaScript numbers
NumAdd(a, b) == IF a.nan \/ b.nan THEN NaN ELSE Num(a.v + b.v)

\* a !== 0
NonZero(a) == a.nan \/ a.v # 0

Range(s) == {s[i] : i \in 1..Len(s)}

\* Array.prototype.includes
Includes(s, x) == \E i \in 1..Len(s) : s[i] = x

\* the characters of each string whose text the code looks at
Chars(str) ==
    CASE str = "" -> <<>>
      [] str = "3/1/2023" -> <<"3", "/", "1", "/", "2", "0", "2", "3">>
      [] str = "1/1/2023" -> <<"1", "/", "1", "/", "2", "0", "2", "3">>
      [] str = "2/1/2023" -> <<"2", "/", "1", "/", "2", "0", "2", "3">>
      [] str = "x/1/2023" -> <<"x", "/", "1", "/", "2", "0", "2", "3">>
      [] str = "100" -> <<"1", "0", "0">>
      [] str = "-50" -> <<"-", "5", "0">>
      [] str = "1,234.56" -> <<"1", ",", "2", "3", "4", ".", "5", "6">>
      [] str = "25" -> <<"2", "5">>
      [] str = "abc" -> <<"a", "b", "c">>
      [] str = "5" -> <<"5">>
      [] str = "2023-01-03" -> <<"2", "0", "2", "3", "-", "0", "1", "-", "0", "3">>
      [] str = "Payment" -> <<"P", "a", "y", "m", "e", "n", "t">>
      [] str = "Currency Conversion" -> <<"C", "u", "r", "r", "e", "n", "c", "y", " ", "C", "o", "n", "v", "e", "r", "s", "i", "o", "n">>
      [] str = "General Authorization" -> <<"G", "e", "n", "e", "r", "a", "l", " ", "A", "u", "t", "h", "o", "r", "i", "z", "a", "t", "i", "o", "n">>
      [] str = "General Card Deposit" -> <<"G", "e", "n", "e", "r", "a", "l", " ", "C", "a", "r", "d", " ", "D", "e", "p", "o", "s", "i", "t">>
      [] str = "Bank Deposit to PP Account" -> <<"B", "a", "n", "k", " ", "D", "e", "p", "o", "s", "i", "t", " ", "t", "o", " ", "P", "P", " ", "A", "c", "c", "o", "u", "n", "t">>
      [] str = "Xx General Card Deposit y" -> <<"X", "x", " ", "G", "e", "n", "e", "r", "a", "l", " ", "C", "a", "r", "d", " ", "D", "e", "p", "o", "s", "i", "t", " ", "y">>
      [] str = "currency conversion" -> <<"c", "u", "r", "r", "e", "n", "c", "y", " ", "c", "o", "n", "v", "e", "r", "s", "i", "o", "n">>
      [] str = "General authorization" -> <<"G", "e", "n", "e", "r", "a", "l", " ", "a", "u", "t", "h", "o", "r", "i", "z", "a", "t", "i", "o", "n">>
      [] str = "Bank Deposit to PP" -> <<"B", "a", "n", "k", " ", "D", "e", "p", "o", "s", "i", "t", " ", "t", "o", " ", "P", "P">>

\* the strings of which Chars gives the characters
Texts ==
    { "", "3/1/2023", "1/1/2023", "2/1/2023", "x/1/2023", "100", "-50", "1,234.56", "25",
      "abc", "5", "2023-01-03", "Payment", "Currency Conversion", "General Authorization",
      "General Card Deposit", "Bank Deposit to PP Account", "Xx General Card Deposit y",
      "currency conversion", "General authorization", "Bank Deposit to PP" }

DigitChars == <<"0", "1", "2", "3", "4", "5", "6", "7", "8", "9">>

IsDigit(c) == \E i \in 1..10 : DigitChars[i] = c

DigitVal(c) == (CHOOSE i \in 1..10 : DigitChars[i] = c) - 1

IsSpace(c) == c = " "

\* the longest prefix of s made of digits
RECURSIVE LeadingDigits(_)
LeadingDigits(s) ==
    IF s = <<>> \/ ~IsDigit(Head(s)) THEN <<>>
    ELSE <<Head(s)>> \o LeadingDigits(Tail(s))

\* the value of a sequence of digits, acc being the value of those read so far
RECURSIVE DigitsValue(_, _)
DigitsValue(s, acc) ==
    IF s = <<>> THEN acc ELSE DigitsValue(Tail(s), acc * 10 + DigitVal(Head(s)))

RECURSIVE DropSpaces(_)
DropSpaces(s) ==
    IF s # <<>> /\ IsSpace(Head(s)) THEN DropSpaces(Tail(s)) ELSE s

\* String.prototype.split on a one-character separator
RECURSIVE Split(_, _)
Split(s, sep) ==
    IF \A i \in 1..Len(s) : s[i] # sep THEN <<s>>
    ELSE LET k == CHOOSE i \in 1..Len(s) : s[i] = sep /\ \A j \in 1..(i - 1) : s[j] # sep
         IN  <<SubSeq(s, 1, k - 1)>> \o Split(SubSeq(s, k + 1, Len(s)), sep)

\* parseInt(s): leading white space, an optional sign, then the leading digits
ParseInt(s) ==
    LET t == DropSpaces(s)
        neg == t # <<>> /\ Head(t) = "-"
        u == IF t # <<>> /\ Head(t) \in {"-", "+"} THEN Tail(t) ELSE t
        ds == LeadingDigits(u)
    IN  IF ds = <<>> THEN NaN
        ELSE Num(IF neg THEN 0 - DigitsValue(ds, 0) ELSE DigitsValue(ds, 0))

\* parseFloat(s), in hundredths: an optional sign, digits, and an optional
\* fraction of which two digits are kept
ParseFloat(s) ==
    LET t == DropSpaces(s)
        neg == t # <<>> /\ Head(t) = "-"
        u == IF t # <<>> /\ Head(t) \in {"-", "+"} THEN Tail(t) ELSE t
        ip == LeadingDigits(u)
        rest == SubSeq(u, Len(ip) + 1, Len(u))
        fp == IF rest # <<>> /\ Head(rest) = "." THEN LeadingDigits(Tail(rest)) ELSE <<>>
        f2 == SubSeq(fp \o <<"0", "0">>, 1, 2)
        mag == DigitsValue(ip, 0) * 100 + DigitsValue(f2, 0)
    IN  IF ip = <<>> /\ fp = <<>> THEN NaN
        ELSE Num(IF neg THEN 0 - mag ELSE mag)

\* str.split(sep) with parseInt applied to each part
IntParts(str, sep) ==
    LET p == Split(Chars(str), sep)
    IN  [i \in 1..Len(p) |-> ParseInt(p[i])]

\* IntParts of each text, for the separators of the two date formats
SlashParts == [str \in Texts |-> IntParts(str, "/")]

DashParts == [str \in Texts |-> IntParts(str, "-")]

\* amountStr.replace(/[,\s]/g, '')
RECURSIVE StripCommasAndSpaces(_)
StripCommasAndSpaces(s) ==
    IF s = <<>> THEN <<>>
    ELSE IF Head(s) = "," \/ IsSpace(Head(s)) THEN StripCommasAndSpaces(Tail(s))
    ELSE <<Head(s)>> \o StripCommasAndSpaces(Tail(s))

\* parseFloat(str.replace(/[,\s]/g, '')) of each text
StrippedFloat == [str \in Texts |-> ParseFloat(StripCommasAndSpaces(Chars(str)))]

parseAmount(amountStr) ==
    IF amountStr = "" THEN Num(0) ELSE StrippedFloat[amountStr]

-----------------------------------------------------------------------------
(* Dates.  Time values are seconds since 2023-01-01T00:00Z. *)

SecPerDay == 24 * 60 * 60

\* days before each month of a year without 29 February
CumDays == <<0, 31, 59, 90, 120, 151, 181, 212, 243, 273, 304, 334>>

\* the day number of year/month index/day as the Date constructor counts it
\* (a month index outside 0..11 carries into the year); exact from March 2021
\* to February 2024
MakeDay(year, monthIndex, day) ==
    (year + (monthIndex \div 12) - 2023) * 365 + CumDays[(monthIndex % 12) + 1] + (day - 1)

\* new Date(year, monthIndex, day): local midnight of that day
LocalDate(year, monthIndex, day) ==
    IF year.nan \/ monthIndex.nan \/ day.nan THEN NaN
    ELSE Num(MakeDay(year.v, monthIndex.v, day.v) * SecPerDay - tz * 60)

\* the calendar day, in local time, that a valid time value falls on
LocalDay(t) == (t.v + tz * 60) \div SecPerDay

\* date.setHours(h, m, s, ms) on a valid time value; secondOfDay is h:m:s
SetHours(t, secondOfDay) == Num(LocalDay(t) * SecPerDay + secondOfDay - tz * 60)

\* new Date('YYYY-MM-DD'): a date-only string is read as UTC midnight
DateOnlyUTC(s) ==
    LET p == DashParts[s]
    IN  Num(MakeDay(p[1].v, p[2].v - 1, p[3].v) * SecPerDay)

parseDate(dateStr) ==
    LET p == SlashParts[dateStr]
        part(i) == IF i <= Len(p) THEN p[i] ELSE NaN
        day == part(1)
        month == part(2)
        year == part(3)
    IN  LocalDate(year, IF month.nan THEN NaN ELSE Num(month.v - 1), day)

-----------------------------------------------------------------------------
(* The files offered for upload *)

Payment == "Payment"

CurrencyConversion == "Currency Conversion"

GeneralAuthorization == "General Authorization"

GeneralCardDeposit == "General Card Deposit"

BankDeposit == "Bank Deposit to PP Account"

\* a row as Papa.parse returns it: date, time, time zone, name, type, status,
\* currency, amount
CsvRow(date, name, type, status, amount) ==
    <<date, "00:00:00", "PST", name, type, status, "CAD", amount>>

HeaderRow == CsvRow("Date", "Name", "Type", "Status", "Gross")

FileNames == {"a.csv", "b.csv"}

\* results.data of each file
FileData(name) ==
    CASE name = "a.csv" ->
            << HeaderRow,
               CsvRow("3/1/2023", "Alice", Payment, "Completed", "100"),
               CsvRow("3/1/2023", "all", Payment, "Completed", "-50"),
               CsvRow("1/1/2023", "Alice", GeneralAuthorization, "Completed", "1,234.56"),
               CsvRow("2/1/2023", "Bob", Payment, "Pending", "") >>
      [] name = "b.csv" ->
            << HeaderRow,
               CsvRow("x/1/2023", "Bob", Payment, "Completed", "25"),
               CsvRow("3/1/2023", "Alice", Payment, "Completed", "100"),
               CsvRow("2/1/2023", "Alice", Payment, "Completed", "abc"),
               CsvRow("2/1/2023", "", Payment, "Completed", "5") >>

\* the names that occur in the files
MerchantNames == {"Alice", "Bob", "all"}

\* the values the date inputs are set to
DateInputs == { "2023-01-03" }

\* the local zones the page runs in, in minutes ahead of UTC
TimeZones == {0 - 300, 60}

\* the zone of the upload scenarios: Eastern Canada (the page formats for en-CA)
HomeZone == 0 - 300

\* every way to select 1..MaxFiles distinct files, in selection order
FileSelections ==
    { s \in UNION { [1..n -> FileNames] : n \in 1..MaxFiles } :
        \A i, j \in 1..Len(s) : i # j => s[i] # s[j] }

-----------------------------------------------------------------------------
(* processCSVFile *)

RawTransaction(row) ==
    [ date |-> row[1], name |-> row[4], type |-> row[5], status |-> row[6],
      currency |-> row[7], amount |-> parseAmount(row[8]) ]

\* results.data.slice(1).map(...)
processCSVFile(data) ==
    IF data = <<>> THEN <<>>
    ELSE [ i \in 1..(Len(data) - 1) |-> RawTransaction(data[i + 1]) ]

\* Array.prototype.flat on an array of arrays
RECURSIVE Flat(_)
Flat(arrays) ==
    IF arrays = <<>> THEN <<>> ELSE Head(arrays) \o Flat(Tail(arrays))

-----------------------------------------------------------------------------
(* The derived views of Dashboard *)

\* the texts that occur in each text, case-sensitively
Occurrences ==
    [ s \in Texts |->
        { sub \in Texts :
            LET cs == Chars(s)
                csub == Chars(sub)
            IN  \E i \in 0..(Len(cs) - Len(csub)) : SubSeq(cs, i + 1, i + Len(csub)) = csub } ]

\* String.prototype.includes
StrIncludes(s, sub) == sub \in Occurrences[s]

\* Array.from(new Set(names)): the first occurrence of each value, in order
RECURSIVE Distinct(_)
Distinct(s) ==
    IF s = <<>> THEN <<>>
    ELSE LET front == SubSeq(s, 1, Len(s) - 1)
             last == s[Len(s)]
         IN  IF Includes(front, last) THEN Distinct(front)
             ELSE Append(Distinct(front), last)

\* isCompleted without the test for card deposits
isCompletedMissingCardDeposit(t) ==
    /\ t.status = "Completed"
    /\ NonZero(t.amount)
    /\ ~StrIncludes(t.type, CurrencyConversion)
    /\ t.name # ""
    /\ ~StrIncludes(t.type, GeneralAuthorization)
    /\ ~StrIncludes(t.type, BankDeposit)

isCompleted(t) ==
    /\ t.status = "Completed"
    /\ NonZero(t.amount)
    /\ ~StrIncludes(t.type, CurrencyConversion)
    /\ t.name # ""
    /\ ~StrIncludes(t.type, GeneralAuthorization)
    /\ ~StrIncludes(t.type, GeneralCardDeposit)
    /\ ~StrIncludes(t.type, BankDeposit)

\* the merchant names of the completed transactions only
MerchantsOfCompleted(raw) ==
    LET kept == SelectSeq(raw, isCompleted)
    IN  SelectSeq(Distinct([i \in 1..Len(kept) |-> kept[i].name]), LAMBDA name : name # "")

Merchants(raw) ==
    SelectSeq(Distinct([i \in 1..Len(raw) |-> raw[i].name]), LAMBDA name : name # "")

matchesMerchant(selected, name) ==
    Includes(selected, "all") \/ Includes(selected, name)

\* a >= b and a <= b of time values: false when either is NaN
TimeGE(a, b) == ~a.nan /\ ~b.nan /\ a.v >= b.v

TimeLE(a, b) == ~a.nan /\ ~b.nan /\ a.v <= b.v

\* 23:59:59, the whole seconds of setHours(23, 59, 59, 999)
EndOfDay == 23 * 3600 + 59 * 60 + 59

matchesDate(date, start, end) ==
    /\ start # "" => TimeGE(date, SetHours(DateOnlyUTC(start), 0))
    /\ end # "" => TimeLE(date, SetHours(DateOnlyUTC(end), EndOfDay))

\* .map(t => ({...t, date: parseDate(t.date), cumulativeAmount: 0}))
WithDate(t) ==
    [ date |-> parseDate(t.date), name |-> t.name, type |-> t.type,
      status |-> t.status, currency |-> t.currency, amount |-> t.amount,
      cumulativeAmount |-> Num(0) ]

Filtered(raw, selected, start, end) ==
    SelectSeq([i \in 1..Len(raw) |-> WithDate(raw[i])],
              LAMBDA t : /\ isCompleted(t)
                         /\ matchesMerchant(selected, t.name)
                         /\ matchesDate(t.date, start, end))

\* (a, b) => a.date.getTime() - b.date.getTime(); sort reads NaN as +0
Compare(a, b) ==
    IF a.date.nan \/ b.date.nan THEN 0 ELSE a.date.v - b.date.v

\* whether Compare is a consistent comparator for the elements of s
ConsistentComparator(s) ==
    \A i, j, k \in 1..Len(s) :
        /\ (Compare(s[i], s[j]) = 0 /\ Compare(s[j], s[k]) = 0) => Compare(s[i], s[k]) = 0
        /\ (Compare(s[i], s[j]) < 0 /\ Compare(s[j], s[k]) < 0) => Compare(s[i], s[k]) < 0
        /\ (Compare(s[i], s[j]) > 0 /\ Compare(s[j], s[k]) > 0) => Compare(s[i], s[k]) > 0

\* x put behind the last element of the sorted s that does not follow it
RECURSIVE InsertSorted(_, _)
InsertSorted(s, x) ==
    IF s = <<>> THEN <<x>>
    ELSE IF Compare(s[Len(s)], x) <= 0 THEN Append(s, x)
    ELSE Append(InsertSorted(SubSeq(s, 1, Len(s) - 1), x), s[Len(s)])

RECURSIVE StableSort(_)
StableSort(s) ==
    IF s = <<>> THEN <<>>
    ELSE InsertSorted(StableSort(SubSeq(s, 1, Len(s) - 1)), s[Len(s)])

\* Array.prototype.sort: stable under a consistent comparator, otherwise the
\* order is implementation-defined
SortOutcomes(s) ==
    IF ConsistentComparator(s) THEN {StableSort(s)}
    ELSE { [i \in 1..Len(s) |-> s[p[i]]] : p \in Permutations(1..Len(s)) }

\* the running total taken before the element's own amount is added
RECURSIVE WithCumulativeExclusive(_)
WithCumulativeExclusive(s) ==
    IF s = <<>> THEN <<>>
    ELSE LET front == WithCumulativeExclusive(SubSeq(s, 1, Len(s) - 1))
             before == IF front = <<>> THEN Num(0)
                       ELSE NumAdd(front[Len(front)].cumulativeAmount,
                                   front[Len(front)].amount)
             last == s[Len(s)]
         IN  Append(front, [last EXCEPT !.cumulativeAmount = before])

\* the running total: cumulativeAmount += transaction.amount
RECURSIVE WithCumulative(_)
WithCumulative(s) ==
    IF s = <<>> THEN <<>>
    ELSE LET front == WithCumulative(SubSeq(s, 1, Len(s) - 1))
             before == IF front = <<>> THEN Num(0) ELSE front[Len(front)].cumulativeAmount
             last == s[Len(s)]
         IN  Append(front, [last EXCEPT !.cumulativeAmount = NumAdd(before, last.amount)])

\* the values the transactions memo can take
TransactionOutcomes(raw, selected, start, end) ==
    { WithCumulative(o) : o \in SortOutcomes(Filtered(raw, selected, start, end)) }

\* the transactions memo of the current state: every value the sort allows
transactions ==
    TransactionOutcomes(rawTransactions, selectedMerchants, startDate, endDate)

\* Math.abs
NumAbs(a) == IF a.nan THEN NaN ELSE Num(IF a.v < 0 THEN 0 - a.v ELSE a.v)

\* .reduce((sum, t) => sum + t.amount, 0)
RECURSIVE SumAmounts(_)
SumAmounts(s) ==
    IF s = <<>> THEN Num(0)
    ELSE NumAdd(SumAmounts(SubSeq(s, 1, Len(s) - 1)), s[Len(s)].amount)

\* t.amount > 0 and t.amount < 0: false for NaN
Positive(a) == ~a.nan /\ a.v > 0

Negative(a) == ~a.nan /\ a.v < 0

\* the statistics of one value o of the transactions memo
totalIncoming(o) == SumAmounts(SelectSeq(o, LAMBDA t : Positive(t.amount)))

totalOutgoing(o) == NumAbs(SumAmounts(SelectSeq(o, LAMBDA t : Negative(t.amount))))

netAmount(o) == IF Len(o) > 0 THEN o[Len(o)].cumulativeAmount ELSE Num(0)

-----------------------------------------------------------------------------
(* MultiSelect *)

isAllSelected(options, selected) ==
    Includes(selected, "all") \/ (Len(options) > 0 /\ Len(selected) = Len(options))

\* the text of the button: a fixed text, the one selected name, or a count
getDisplayText(options, selected) ==
    IF Includes(selected, "all") \/ (Len(options) > 0 /\ Len(selected) = Len(options))
    THEN [text |-> "All Merchants", count |-> 0]
    ELSE IF Len(selected) = 0 THEN [text |-> "Select Merchants...", count |-> 0]
    ELSE IF Len(selected) = 1 THEN [text |-> selected[1], count |-> 0]
    ELSE [text |-> "Merchants Selected", count |-> Len(selected)]

\* what handleSelectAll passes to onChange
SelectAllResult(options, selected) ==
    IF isAllSelected(options, selected) THEN <<>> ELSE <<"all">>

\* what handleOptionClick(option) passes to onChange
OptionClickResult(options, selected, option) ==
    LET currentSelection == IF Includes(selected, "all") THEN options ELSE selected
        newSelected == IF Includes(currentSelection, option)
                       THEN SelectSeq(currentSelection, LAMBDA x : x # option)
                       ELSE Append(currentSelection, option)
    IN  IF Len(newSelected) = Len(options) THEN <<"all">> ELSE newSelected

-----------------------------------------------------------------------------
(* The handlers *)

\* what lastOp records: a commit or a failure with the call it belongs to (its
\* number, its files and the order in which its parses had finished), any
\* other handler as "other"
Op(name, id, files, order) == [op |-> name, id |-> id, files |-> files, order |-> order]

Other == Op("other", 0, <<>>, <<>>)

Pending == [st |-> "pending", rows |-> <<>>]

\* s without its k-th element
RemoveAt(s, k) == SubSeq(s, 1, k - 1) \o SubSeq(s, k + 1, Len(s))

\* the calls of handleFileUpload after the step of call k that leaves it as
\* call: a call with no parse left takes no further step and is dropped
AfterStep(k, call) ==
    IF call.state # "parsing" /\ \A j \in 1..Len(call.results) : call.results[j].st # "pending"
    THEN RemoveAt(uploads, k)
    ELSE [uploads EXCEPT ![k] = call]

Init ==
    /\ rawTransactions = <<>>
    /\ selectedMerchants = <<"all">>
    /\ uploadedFiles = <<>>
    /\ startDate = ""
    /\ endDate = ""
    /\ isLoading = FALSE
    /\ merchants = <<>>
    /\ uploads = <<>>
    /\ started = 0
    /\ tz = HomeZone
    /\ lastOp = Other

\* handleFileUpload up to its await: an empty selection returns at once,
\* otherwise the flag is raised and one parse per file is started
HandleFileUpload(files) ==
    /\ started < MaxUploads
    /\ IF files = <<>>
       THEN UNCHANGED <<isLoading, uploads, started, lastOp>>
       ELSE /\ isLoading' = TRUE
            /\ started' = started + 1
            /\ uploads' = Append(uploads,
                   [ id |-> started + 1, files |-> files,
                     results |-> [i \in 1..Len(files) |-> Pending],
                     order |-> <<>>, state |-> "parsing" ])
            /\ lastOp' = Other
    /\ UNCHANGED <<rawTransactions, selectedMerchants, uploadedFiles, startDate, endDate,
                   merchants, tz>>

\* the combined rows with repeated rows dropped
CombinedDeduplicated(results) ==
    Distinct(Flat([i \in 1..Len(results) |-> results[i].rows]))

\* allTransactions.flat(): what the continuation of the await commits
CombinedTransactions(results) == Flat([i \in 1..Len(results) |-> results[i].rows])

\* the batch commits once no parse is pending, rejected or not
BatchSettlesIgnoringFailure(k, results) ==
    \A j \in 1..Len(results) : results[j].st # "pending"

\* the batch commits with the first parse that resolves
BatchSettlesEarly(k, results) ==
    /\ uploads[k].state = "parsing"
    /\ \E j \in 1..Len(results) : results[j].st = "done"

\* Promise.all of call k fulfils: it has not rejected and every parse resolved
BatchSettles(k, results) ==
    /\ uploads[k].state = "parsing"
    /\ \A j \in 1..Len(results) : results[j].st = "done"

\* the selection left as it is by a successful upload
SelectionKept == selectedMerchants

\* setSelectedMerchants(['all']) after a successful upload
SelectionAfterUpload == <<"all">>

\* the loading flag left as it is when a call of handleFileUpload ends
LoadingKept == isLoading

\* finally { setIsLoading(false) }
LoadingAfterUpload == FALSE

\* Papa's complete callback of file i of call k; when it resolves the last
\* promise of the batch, the continuation of the await runs with it
ParseComplete(k, i) ==
    /\ k \in 1..Len(uploads)
    /\ i \in 1..Len(uploads[k].files)
    /\ uploads[k].results[i].st = "pending"
    /\ LET parsed == processCSVFile(FileData(uploads[k].files[i]))
           results == [uploads[k].results EXCEPT ![i] = [st |-> "done", rows |-> parsed]]
           order == Append(uploads[k].order, i)
           settles == BatchSettles(k, results)
       IN  /\ uploads' = AfterStep(k, [uploads[k] EXCEPT
                                         !.results = results,
                                         !.order = order,
                                         !.state = IF settles THEN "committed" ELSE @])
           /\ IF settles
              THEN /\ rawTransactions' = CombinedTransactions(results)
                   /\ uploadedFiles' = uploads[k].files
                   /\ selectedMerchants' = SelectionAfterUpload
                   /\ isLoading' = LoadingAfterUpload
                   /\ merchants' = Merchants(rawTransactions')
                   /\ lastOp' = Op("commit", uploads[k].id, uploads[k].files, order)
              ELSE /\ lastOp' = Other
                   /\ UNCHANGED <<rawTransactions, uploadedFiles, selectedMerchants,
                                  isLoading, merchants>>
    /\ UNCHANGED <<startDate, endDate, started, tz>>

\* Papa's error callback of file i of call k; the first rejection of a batch
\* rejects Promise.all, and the catch and finally blocks run
ParseError(k, i) ==
    /\ k \in 1..Len(uploads)
    /\ i \in 1..Len(uploads[k].files)
    /\ uploads[k].results[i].st = "pending"
    /\ LET rejects == uploads[k].state = "parsing"
           order == Append(uploads[k].order, i)
       IN  /\ uploads' = AfterStep(k, [uploads[k] EXCEPT
                                         !.results[i] = [st |-> "error", rows |-> <<>>],
                                         !.order = order,
                                         !.state = "failed"])
           /\ IF rejects
              THEN /\ isLoading' = LoadingAfterUpload
                   /\ lastOp' = Op("fail", uploads[k].id, uploads[k].files, order)
              ELSE /\ lastOp' = Other
                   /\ UNCHANGED isLoading
    /\ UNCHANGED <<rawTransactions, selectedMerchants, uploadedFiles, startDate, endDate,
                   merchants, started, tz>>

\* the start date input and its clear button
SetStartDate(value) ==
    /\ Len(rawTransactions) > 0
    /\ value # startDate
    /\ startDate' = value
    /\ lastOp' = Other
    /\ UNCHANGED <<rawTransactions, selectedMerchants, uploadedFiles, endDate, isLoading,
                   merchants, uploads, started, tz>>

\* the end date input and its clear button
SetEndDate(value) ==
    /\ Len(rawTransactions) > 0
    /\ value # endDate
    /\ endDate' = value
    /\ lastOp' = Other
    /\ UNCHANGED <<rawTransactions, selectedMerchants, uploadedFiles, startDate, isLoading,
                   merchants, uploads, started, tz>>

\* onChange={setSelectedMerchants}
SetSelectedMerchants(selected) ==
    /\ selectedMerchants' = selected
    /\ lastOp' = Other
    /\ UNCHANGED <<rawTransactions, uploadedFiles, startDate, endDate, isLoading,
                   merchants, uploads, started, tz>>

HandleSelectAll ==
    /\ Len(rawTransactions) > 0
    /\ SetSelectedMerchants(SelectAllResult(merchants, selectedMerchants))

HandleOptionClick(option) ==
    /\ Len(rawTransactions) > 0
    /\ Includes(merchants, option)
    /\ SetSelectedMerchants(OptionClickResult(merchants, selectedMerchants, option))

Next ==
    \/ \E files \in FileSelections \cup {<<>>} : HandleFileUpload(files)
    \/ \E u \in 1..MaxUploads, i \in 1..MaxFiles : ParseComplete(u, i)
    \/ \E u \in 1..MaxUploads, i \in 1..MaxFiles : ParseError(u, i)
    \/ \E value \in DateInputs \cup {""} : SetStartDate(value)
    \/ \E value \in DateInputs \cup {""} : SetEndDate(value)
    \/ HandleSelectAll
    \/ \E option \in MerchantNames : HandleOptionClick(option)

Spec == Init /\ [][Next]_vars

-----------------------------------------------------------------------------
(* The view of a single candidate transaction: the state after the upload  *)
(* of a file with one data row, then any changes of the filters.           *)

TypeSamples ==
    { Payment, CurrencyConversion, GeneralAuthorization, GeneralCardDeposit, BankDeposit,
      "",
      "Xx General Card Deposit y",
      "currency conversion",
      "General authorization",
      "Bank Deposit to PP" }

StatusSamples == {"Completed", "completed", "Pending", ""}

AmountSamples == {Num(0), Num(500), Num(0 - 500), NaN}

NameSamples == {"", "Alice"}

Candidates ==
    { [ date |-> "3/1/2023", name |-> n, type |-> ty, status |-> st,
        currency |-> "CAD", amount |-> am ] :
        n \in NameSamples, ty \in TypeSamples, st \in StatusSamples, am \in AmountSamples }

InitFilter ==
    /\ \E t \in Candidates : rawTransactions = <<t>>
    /\ selectedMerchants = <<"all">>
    /\ uploadedFiles = <<"probe.csv">>
    /\ startDate = ""
    /\ endDate = ""
    /\ isLoading = FALSE
    /\ merchants = Merchants(rawTransactions)
    /\ uploads = <<>>
    /\ started = 1
    /\ tz \in TimeZones
    /\ lastOp = Op("commit", 1, <<"probe.csv">>, <<1>>)

NextFilter ==
    \/ \E value \in DateInputs \cup {""} : SetStartDate(value)
    \/ \E value \in DateInputs \cup {""} : SetEndDate(value)
    \/ HandleSelectAll
    \/ \E option \in MerchantNames : HandleOptionClick(option)

SpecFilter == InitFilter /\ [][NextFilter]_vars

-----------------------------------------------------------------------------
(* Retrying after a failure: the states right after the first upload has     *)
(* failed at the first of its parses to settle, then any further uploads     *)
(* and changes of the merchant selection (no upload reads or writes the      *)
(* date inputs).  Papa.parse calls complete or error for every file it was   *)
(* given, so the parse callbacks are weakly fair.                            *)

\* the calls left after the parse of file i of the first upload has failed
FailedFirst(files, i) ==
    IF Len(files) = 1 THEN <<>>
    ELSE << [ id |-> 1, files |-> files,
              results |-> [j \in 1..Len(files) |->
                              IF j = i THEN [st |-> "error", rows |-> <<>>] ELSE Pending],
              order |-> <<i>>, state |-> "failed" ] >>

InitRetry ==
    /\ rawTransactions = <<>>
    /\ selectedMerchants = <<"all">>
    /\ uploadedFiles = <<>>
    /\ startDate = ""
    /\ endDate = ""
    /\ isLoading = FALSE
    /\ merchants = <<>>
    /\ started = 1
    /\ tz = HomeZone
    /\ \E files \in FileSelections, i \in 1..MaxFiles :
          /\ i <= Len(files)
          /\ uploads = FailedFirst(files, i)
          /\ lastOp = Op("fail", 1, files, <<i>>)

NextRetry ==
    \/ \E files \in FileSelections \cup {<<>>} : HandleFileUpload(files)
    \/ \E u \in 1..MaxUploads, i \in 1..MaxFiles : ParseComplete(u, i)
    \/ \E u \in 1..MaxUploads, i \in 1..MaxFiles : ParseError(u, i)
    \/ HandleSelectAll
    \/ \E option \in MerchantNames : HandleOptionClick(option)

\* a callback of one of the parses in flight
ParseStep ==
    \E u \in 1..Len(uploads) : \E i \in 1..Len(uploads[u].files) :
        ParseComplete(u, i) \/ ParseError(u, i)

SpecRetry == InitRetry /\ [][NextRetry]_vars /\ WF_vars(ParseStep)

-----------------------------------------------------------------------------
(* Properties *)

\* the sum of the amounts of o[1..i], added from the left
RECURSIVE SumTo(_, _)
SumTo(o, i) == IF i = 0 THEN Num(0) ELSE NumAdd(SumTo(o, i - 1), o[i].amount)

FiltersActive == selectedMerchants # <<"all">> \/ startDate # "" \/ endDate # ""

\* C1: in every reachable state, every element of the derived transaction
\* sequence carries the sum of the amounts of the elements up to and including
\* itself.
C1_CumulativeIsInclusiveSum ==
    \A o \in transactions :
        \A i \in 1..Len(o) : o[i].cumulativeAmount = SumTo(o, i)

C1_Witness ==
    /\ FiltersActive
    /\ \E o \in transactions :
          /\ Len(o) >= 3
          /\ \E i, j \in 1..Len(o) : ~o[i].amount.nan /\ ~o[j].amount.nan
                                     /\ o[i].amount.v > 0 /\ o[j].amount.v < 0
          /\ o[Len(o)].cumulativeAmount # o[Len(o)].amount

\* a step in which the continuation of the await of a call that has not
\* rejected commits its batch
CommitStep ==
    \E k \in 1..Len(uploads) :
        /\ uploads[k].state = "parsing"
        /\ lastOp'.op = "commit"
        /\ lastOp'.id = uploads[k].id

\* a step of handleFileUpload or of one of its parses
UploadStep == uploads' # uploads \/ started' # started

\* C2 as stated: right after a successful upload the merchant selection is the
\* "all" sentinel and both date filters are empty.
C2_UploadResetsAllFilters ==
    lastOp.op = "commit" =>
        selectedMerchants = <<"all">> /\ startDate = "" /\ endDate = ""

\* C2 as amended: a successful upload sets the merchant selection to the "all"
\* sentinel and leaves the start date and the end date as they were.
C2_UploadResetsMerchantsOnly ==
    [][CommitStep => /\ selectedMerchants' = <<"all">>
                     /\ startDate' = startDate
                     /\ endDate' = endDate]_vars

C2_Witness ==
    /\ lastOp.op = "commit"
    /\ lastOp.id = 2
    /\ startDate # ""
    /\ selectedMerchants = <<"all">>

\* C3: no step of an upload other than the commit of a fully parsed batch
\* changes the working set, the file list or the filters; so a batch in which a
\* parse fails leaves them as they were, whatever its other files did.
C3_FailedBatchChangesNothing ==
    [][(UploadStep /\ ~CommitStep) =>
          UNCHANGED <<rawTransactions, uploadedFiles, selectedMerchants,
                      startDate, endDate>>]_vars

C3_Witness ==
    /\ lastOp.op = "fail"
    /\ Len(lastOp.order) = 2
    /\ rawTransactions # <<>>
    /\ FiltersActive

\* the rows of the files of a batch: each file's rows after its header row,
\* file after file in selection order
RECURSIVE BatchRows(_)
BatchRows(files) ==
    IF files = <<>> THEN <<>>
    ELSE LET data == FileData(Head(files))
         IN  [i \in 1..(Len(data) - 1) |-> RawTransaction(data[i + 1])]
             \o BatchRows(Tail(files))

\* C4: the working set is empty or the complete rows of one selected batch,
\* the one the file list names.
C4_WorkingSetIsOneWholeBatch ==
    \/ rawTransactions = <<>> /\ uploadedFiles = <<>>
    \/ uploadedFiles \in FileSelections /\ rawTransactions = BatchRows(uploadedFiles)

C4_Witness ==
    /\ rawTransactions # <<>>
    /\ \E k \in 1..Len(uploads) :
          /\ uploads[k].state = "parsing"
          /\ \E i, j \in 1..Len(uploads[k].files) :
                uploads[k].results[i].st = "done" /\ uploads[k].results[j].st = "pending"
          /\ uploads[k].files # uploadedFiles

\* C5: the batch committed is the rows of its files in selection order, in
\* whatever order the parses completed, duplicates included.
C5_CommitInSelectionOrder ==
    lastOp.op = "commit" => rawTransactions = BatchRows(lastOp.files)

C5_Witness ==
    /\ lastOp.op = "commit"
    /\ lastOp.order = <<2, 1>>
    /\ \E i, j \in 1..Len(rawTransactions) : i < j /\ rawTransactions[i] = rawTransactions[j]

\* s has sub as a contiguous part
Contains(s, sub) ==
    \E a, b \in 0..Len(Chars(s)) : a <= b /\ SubSeq(Chars(s), a + 1, b) = Chars(sub)

\* the Inclusion Filter as specified
Included(t) ==
    /\ t.status = "Completed"
    /\ t.amount # Num(0)
    /\ t.name # ""
    /\ \A phrase \in {CurrencyConversion, GeneralAuthorization, GeneralCardDeposit, BankDeposit} :
          ~Contains(t.type, phrase)

\* C6: only transactions that pass the Inclusion Filter reach the aggregated
\* view, and with no merchant or date filter all of them do.
C6_InclusionFilter ==
    \A o \in transactions :
        /\ \A i \in 1..Len(o) : Included(o[i])
        /\ ~FiltersActive =>
              Len(o) = Cardinality({i \in 1..Len(rawTransactions) : Included(rawTransactions[i])})

C6_Witness ==
    /\ ~FiltersActive
    /\ lastOp.op = "other"
    /\ \E o \in transactions : Len(o) = 1

\* C7: under the "all" sentinel every name passes the merchant match, under
\* any other selection exactly the names in the selection pass.
C7_MerchantMatch ==
    \A i \in 1..Len(rawTransactions) :
        LET name == rawTransactions[i].name
        IN  matchesMerchant(selectedMerchants, name)
                <=> (selectedMerchants = <<"all">> \/ name \in Range(selectedMerchants))

\* the calendar day a date field names, and the calendar day of a date input
DayOfField(dateStr) ==
    LET p == Split(Chars(dateStr), "/")
    IN  MakeDay(ParseInt(p[3]).v, ParseInt(p[2]).v - 1, ParseInt(p[1]).v)

DayOfInput(value) ==
    LET p == Split(Chars(value), "-")
    IN  MakeDay(ParseInt(p[1]).v, ParseInt(p[2]).v - 1, ParseInt(p[3]).v)

HasValidDate(t) == ~parseDate(t.date).nan

\* C8: a set start day S lets pass only days not before S, and all of day S; a
\* set end day E lets pass only days not after E, and all of day E.
C8_DateRangeByCalendarDay ==
    \A i \in 1..Len(rawTransactions) :
        LET t == rawTransactions[i]
            D == DayOfField(t.date)
        IN  HasValidDate(t) =>
              /\ startDate # "" =>
                    /\ matchesDate(parseDate(t.date), startDate, "") => D >= DayOfInput(startDate)
                    /\ D = DayOfInput(startDate) => matchesDate(parseDate(t.date), startDate, "")
              /\ endDate # "" =>
                    /\ matchesDate(parseDate(t.date), "", endDate) => D <= DayOfInput(endDate)
                    /\ D = DayOfInput(endDate) => matchesDate(parseDate(t.date), "", endDate)

\* C9: the merchant options are the distinct non-empty names of all rows of
\* the working set, each once, whatever the filters are.
C9_MerchantUniverse ==
    /\ Range(merchants) = {rawTransactions[i].name : i \in 1..Len(rawTransactions)} \ {""}
    /\ \A i, j \in 1..Len(merchants) : i # j => merchants[i] # merchants[j]

C9_Witness ==
    /\ Includes(merchants, "Bob")
    /\ \A i \in 1..Len(rawTransactions) :
          rawTransactions[i].name = "Bob" => ~Included(rawTransactions[i])
    /\ selectedMerchants # <<"all">>
    /\ startDate # ""
    /\ endDate # ""

\* the elements of o dated d, without their running totals
OfDate(o, d) ==
    LET sel == SelectSeq(o, LAMBDA t : t.date = d)
    IN  [i \in 1..Len(sel) |-> [sel[i] EXCEPT !.cumulativeAmount = Num(0)]]

\* C10: the aggregated sequence ascends by resolved date, and transactions of
\* one date keep the order they have in the working set.
C10_SortedAndStable ==
    \A o \in transactions :
        /\ \A i, j \in 1..Len(o) :
              (i < j /\ ~o[i].date.nan /\ ~o[j].date.nan) => o[i].date.v <= o[j].date.v
        /\ \A k \in 1..Len(o) :
              OfDate(o, o[k].date)
                  = OfDate(Filtered(rawTransactions, selectedMerchants, startDate, endDate),
                           o[k].date)

\* the sum of the amounts of o whose index is in idx, as a number
RECURSIVE SumOver(_, _)
SumOver(o, idx) ==
    IF idx = {} THEN 0
    ELSE LET i == CHOOSE i \in idx : TRUE
         IN  o[i].amount.v + SumOver(o, idx \ {i})

\* C11: total incoming is the sum of the positive amounts of the view, total
\* outgoing the absolute value of the sum of the negative ones, the net amount
\* is the running total of the last element (0 for an empty view), and
\* incoming minus outgoing equals the net amount.
C11_TotalsBalance ==
    \A o \in transactions :
        LET pos == {i \in 1..Len(o) : ~o[i].amount.nan /\ o[i].amount.v > 0}
            neg == {i \in 1..Len(o) : ~o[i].amount.nan /\ o[i].amount.v < 0}
        IN  /\ totalIncoming(o) = Num(SumOver(o, pos))
            /\ totalOutgoing(o) = Num(0 - SumOver(o, neg))
            /\ netAmount(o) = IF o = <<>> THEN Num(0) ELSE o[Len(o)].cumulativeAmount
            /\ ~totalIncoming(o).nan /\ ~totalOutgoing(o).nan /\ ~netAmount(o).nan
            /\ totalIncoming(o).v - totalOutgoing(o).v = netAmount(o).v

\* the Gross fields of the rows of a batch, in the order of BatchRows
RECURSIVE GrossFields(_)
GrossFields(files) ==
    IF files = <<>> THEN <<>>
    ELSE LET data == FileData(Head(files))
         IN  [i \in 1..(Len(data) - 1) |-> data[i + 1][8]] \o GrossFields(Tail(files))

\* whether a field, commas and white space dropped, starts with a number: an
\* optional sign, then a digit or a point and a digit
StartsWithNumber(field) ==
    LET c == StripCommasAndSpaces(Chars(field))
        u == IF c # <<>> /\ Head(c) \in {"+", "-"} THEN Tail(c) ELSE c
    IN  /\ u # <<>>
        /\ \/ IsDigit(u[1])
           \/ u[1] = "." /\ Len(u) >= 2 /\ IsDigit(u[2])

\* C12: a row whose amount field is empty or does not parse as a number has
\* the amount 0, and so no element of the aggregated view and none of the
\* summary totals holds anything but a number.
C12_UnparseableAmountIsZero ==
    /\ \A i \in 1..Len(rawTransactions) :
          ~StartsWithNumber(GrossFields(uploadedFiles)[i]) => rawTransactions[i].amount = Num(0)
    /\ \A o \in transactions :
          /\ \A i \in 1..Len(o) : ~o[i].amount.nan /\ ~o[i].cumulativeAmount.nan
          /\ ~netAmount(o).nan

\* the names selected after the user toggles option in the selection selected
Toggled(selected, option) ==
    IF option \in Range(selected) THEN Range(selected) \ {option}
    ELSE Range(selected) \cup {option}

\* C13: when toggling an option leaves every option selected, the selection
\* emitted is the "all" sentinel; and a selection that holds every option has
\* the display text and the filtered transactions of the "all" sentinel.
C13_EveryOptionIsAll ==
    /\ \A option \in Range(merchants) :
          Toggled(selectedMerchants, option) = Range(merchants)
              => OptionClickResult(merchants, selectedMerchants, option) = <<"all">>
    /\ (merchants # <<>> /\ Range(merchants) \subseteq Range(selectedMerchants)) =>
          /\ getDisplayText(merchants, selectedMerchants)
                 = getDisplayText(merchants, <<"all">>)
          /\ Filtered(rawTransactions, selectedMerchants, startDate, endDate)
                 = Filtered(rawTransactions, <<"all">>, startDate, endDate)

\* C14: after a failed upload the loading flag, whenever raised again, comes
\* back to false, and an upload whose files all parse commits its batch as a
\* first upload would: the working set and file list are the batch's, the
\* merchant options are its names, the selection is "all", the flag is false.
C14_UsableAfterFailure ==
    /\ isLoading ~> ~isLoading
    /\ [][CommitStep => /\ rawTransactions' = BatchRows(lastOp'.files)
                        /\ uploadedFiles' = lastOp'.files
                        /\ merchants' = Merchants(BatchRows(lastOp'.files))
                        /\ selectedMerchants' = <<"all">>
                        /\ ~isLoading']_vars

C14_Witness ==
    /\ lastOp.op = "commit"
    /\ lastOp.id > 1
    /\ Len(lastOp.files) = 2
    /\ rawTransactions = BatchRows(lastOp.files)
    /\ ~isLoading
    /\ \E k \in 1..Len(uploads) : uploads[k].id = 1 /\ uploads[k].state = "failed"

\* C15: no element of the aggregated sequence has a date that failed to
\* parse, whether or not a start or end date is set.
C15_UnparseableDateKeptOut ==
    \A o \in transactions : \A i \in 1..Len(o) : ~o[i].date.nan

\* C16: when the batch started last has committed while an earlier batch was
\* still being parsed, and the earlier batch then commits too, the working set
\* and the file list stay those of the batch started last.
C16_LastStartedBatchWins ==
    [][(lastOp.op = "commit" /\ lastOp.id = started /\ CommitStep) =>
          /\ rawTransactions' = BatchRows(lastOp.files)
          /\ uploadedFiles' = lastOp.files]_vars

\* C17: the loading flag is raised exactly while some batch is being parsed.
C17_LoadingWhileParsing ==
    isLoading <=> \E k \in 1..Len(uploads) : uploads[k].state = "parsing"

\* C18: the selection is the lone "all" sentinel, or a list without repeats
\* of some but not all of the merchant options, without the sentinel.
C18_SelectionWellFormed ==
    \/ selectedMerchants = <<"all">>
    \/ /\ \A i, j \in 1..Len(selectedMerchants) :
              i # j => selectedMerchants[i] # selectedMerchants[j]
       /\ Range(selectedMerchants) \subseteq Range(merchants)
       /\ Range(selectedMerchants) # Range(merchants) \/ merchants = <<>>
       /\ ~Includes(selectedMerchants, "all")

====
